---- MODULE Spec2Model ----
(***************************************************************************)
(* Kodr client screens (Messages, Projects, Browse) over the data service.  *)
(* The React components are modelled as state machines: the useState cells *)
(* are variables, every event handler, effect run and continuation of an   *)
(* awaited request is one action, and the data service is the set of rows  *)
(* it holds plus the requests and change events that are in flight.        *)
(***************************************************************************)
EXTENDS Integers, Sequences, FiniteSets

VARIABLES
    page,                  \* the screen the router has mounted
    faults,                \* whether the data service may fail a call
    mounted,               \* FALSE once the screen has been unmounted
    user,                  \* useAuth().user: NoUser or a user id
    conversations,         \* Messages: useState<Conversation[]>
    selectedConversation,  \* Messages: useState<string | null>
    messages,              \* Messages: useState<Message[]>
    newMessage,            \* Messages: useState('') (the draft)
    loading,               \* useState(true) of the mounted screen
    channels,              \* realtime channels this client holds
    events,                \* INSERT notifications on their way to a channel
    requests,              \* remote calls awaiting their continuation
    dbMessages,            \* rows of the messages table
    profile,               \* useAuth().profile?.role: None, "coder" or "hirer"
    projects,              \* Projects: useState<Project[]>
    myProjects,            \* Projects: useState<Project[]>
    applications,          \* Projects: useState<any[]>
    dbApplications,        \* rows of the project_applications table, oldest first
    coders,                \* Browse: useState<Profile[]>
    teams,                 \* Browse: useState<Team[]>
    dbFollows,             \* rows of the follows table
    budget_min,            \* Projects: budget_min of the project a card shows
    budget_max,            \* Projects: budget_max of that project
    budget,                \* Projects: the budget text the card has rendered
    toast,                 \* toast shown by the handler that ran last
    consoleError           \* console.error written by the handler that ran last

vars == <<page, faults, mounted, user, conversations, selectedConversation, messages,
          newMessage, loading, channels, events, requests, dbMessages,
          profile, projects, myProjects, applications, dbApplications,
          coders, teams, dbFollows, budget_min, budget_max, budget,
          toast, consoleError>>

\* The cells of each screen and the tables behind it
messagesVars == <<conversations, selectedConversation, messages, newMessage,
                  channels, events, dbMessages>>

projectsVars == <<profile, projects, myProjects, applications, dbApplications>>

browseVars == <<coders, teams, dbFollows>>

budgetVars == <<budget_min, budget_max, budget>>

----------------------------------------------------------------------------
(* Bounds of the model *)

\* rows the messages table may come to hold
MaxMsg == 2
\* message calls (loadMessages, fetchMessage, sendMessage) that may be awaiting
\* their answer at one time
MaxInFlight == 2
\* fetchConversations calls that may be awaiting their answer at one time
MaxListCalls == 1
\* channels a client may hold (the code keeps one; the cap stops a faulty
\* variant from growing without bound)
MaxChannels == 2

NoUser == "null"
NoConversation == "null"
None == "none"

\* The identity that signs in and out on this client; "u2" is another
\* participant, on another client.
Users == {"u1"}

\* The conversations table in the order the query returns it
\* (updated_at descending), and each conversation's participants.
AllConversations == <<"A", "B", "C">>

ConversationIds == {AllConversations[i] : i \in 1..Len(AllConversations)}

conversation_participants(c) ==
    CASE c = "A" -> {"u1", "u2"}
      [] c = "B" -> {"u1"}
      [] OTHER   -> {"u2"}

\* The open projects in the order the query returns them (created_at
\* descending), by id, and the hirer who posted each.
OpenProjects == <<2, 1>>

hirer_id(p) == IF p = 1 THEN "u1" ELSE "u2"

Roles == {"coder", "hirer"}

\* The largest budget bound of a project
MaxBudget == 10

\* A budget column (number | null): << >> for null, <<n>> for the number n
Budgets == {<< >>} \cup {<<n>> : n \in 0..MaxBudget}

\* Error codes the data service answers a failed insert with: the unique
\* violation, and one of the others (a row-level-security refusal).
UniqueViolation == "23505"
OtherErrorCodes == {"42501"}

\* Drafts the user may type: strings as sequences of characters.
Drafts == {<< >>, <<" ">>, <<" ", "a", " ">>}

\* While composing, the user may also type a second text.
ComposeDrafts == Drafts \cup {<<"b">>}

----------------------------------------------------------------------------
(* Pure helpers *)

RECURSIVE TrimStart(_)
TrimStart(s) ==
    IF s # << >> /\ Head(s) = " " THEN TrimStart(Tail(s)) ELSE s

RECURSIVE TrimEnd(_)
TrimEnd(s) ==
    IF s # << >> /\ s[Len(s)] = " " THEN TrimEnd(SubSeq(s, 1, Len(s) - 1)) ELSE s

trim_Nothing(s) == s

\* String.prototype.trim
trim(s) == TrimEnd(TrimStart(s))

\* data?.filter(conv => conv.conversation_participants?.some(p => p.user_id === user.id))
IsParticipant(u, c) == u \in conversation_participants(c)

userConversations_Unfiltered(data, u) == data

userConversations(data, u) == SelectSeq(data, LAMBDA c : IsParticipant(u, c))

SeqToSet(s) == {s[i] : i \in 1..Len(s)}

\* .order('created_at', { ascending: true }) over a set of rows
RECURSIVE OrderAscending(_)
OrderAscending(rows) ==
    IF rows = {} THEN << >>
    ELSE LET first == CHOOSE r \in rows : \A q \in rows : r.created_at <= q.created_at
         IN  <<first>> \o OrderAscending(rows \ {first})

Reverse(s) == [i \in 1..Len(s) |-> s[Len(s) + 1 - i]]

QueryMessages_Descending(c) ==
    Reverse(OrderAscending({r \in dbMessages : r.conversation_id = c}))

\* from('messages').select(...).eq('conversation_id', c).order('created_at')
QueryMessages(c) ==
    OrderAscending({r \in dbMessages : r.conversation_id = c})

\* from('messages').select(...).eq('id', id).single()
QueryMessage(id) == CHOOSE r \in dbMessages : r.id = id

Min(S) == CHOOSE x \in S : \A y \in S : x <= y

----------------------------------------------------------------------------
(* Requests, channels and notifications *)

\* A remote call that has been issued and whose continuation has not run.
\* status: "sent" until the data service has run it, then "ok" or "error";
\* data is what the service answered. Calls in flight are a multiset: n tells
\* apart the calls that are otherwise equal.
Call(n, kind, conv, id, u, content) ==
    [n |-> n, kind |-> kind, conversation_id |-> conv, id |-> id, user |-> u,
     content |-> content, status |-> "sent", data |-> << >>, code |-> ""]

SameCall(r, kind, conv, id, u, content) ==
    /\ r.kind = kind /\ r.conversation_id = conv /\ r.id = id
    /\ r.user = u /\ r.content = content

Request(reqs, kind, conv, id, u, content) ==
    Call(Min({n \in 1..(MaxInFlight + MaxListCalls + 1) :
                ~ \E r \in reqs : r.n = n /\ SameCall(r, kind, conv, id, u, content)}),
         kind, conv, id, u, content)

Issue(reqs, kind, conv, id, u, content) ==
    reqs \cup {Request(reqs, kind, conv, id, u, content)}

\* The calls that load a screen's lists
ListKinds == {"fetchConversations", "fetchProjects", "fetchMyProjects",
              "fetchMyApplications", "fetchCoders", "fetchTeams"}

\* The model follows a step only while the calls in flight stay within the caps.
Room(reqs) ==
    /\ \A k \in ListKinds : Cardinality({r \in reqs : r.kind = k}) <= MaxListCalls
    /\ Cardinality({r \in reqs : r.kind \notin ListKinds}) <= MaxInFlight

Answered(r, status, data) == [r EXCEPT !.status = status, !.data = data]

\* The `error` a call's answer may carry
Errors == IF faults THEN {TRUE, FALSE} ELSE {FALSE}

\* The handler output of a step that shows and logs nothing.
Quiet == toast' = None /\ consoleError' = None

\* supabase.removeChannel(messagesChannel): the cleanup of the subscribing
\* effect removes the channel that effect run created, the last one made.
removeChannel(chs) == SubSeq(chs, 1, Len(chs) - 1)

EffectCleanup_Skipped(prevUser, chs) == chs

\* The cleanup exists only when the previous run got past `if (!user) return`.
EffectCleanup(prevUser, chs) ==
    IF prevUser # NoUser /\ chs # << >> THEN removeChannel(chs) ELSE chs

ChannelIds(chs) == {chs[i].id : i \in 1..Len(chs)}

\* supabase.channel('messages-channel').on('postgres_changes', ...).subscribe()
\* The handler closes over the selectedConversation of the render it was made in.
subscribe(chs, sel) ==
    Append(chs, [id |-> Min((1..MaxChannels) \ ChannelIds(chs)),
                 selectedConversation |-> sel, status |-> "joining"])

\* One run of the effect of Messages.tsx:55-83 for the deps (u, sel), after the
\* cleanup of the previous run (whose user was prevUser).
EffectChannels(prevUser, u, sel) ==
    LET kept == EffectCleanup(prevUser, channels)
    IN  IF u = NoUser THEN kept ELSE subscribe(kept, sel)

EffectRoom(prevUser, u) ==
    u # NoUser => Len(EffectCleanup(prevUser, channels)) < MaxChannels

fetchConversations_NoGuard(reqs, u) ==
    Issue(reqs, "fetchConversations", NoConversation, 0, u, << >>)

\* fetchConversations() as called by the effect: `if (!user) return` first.
fetchConversations(reqs, u) ==
    IF u = NoUser THEN reqs
    ELSE Issue(reqs, "fetchConversations", NoConversation, 0, u, << >>)

\* loadMessages(conversationId) up to its await
loadMessages(reqs, c) == Issue(reqs, "loadMessages", c, 0, NoUser, << >>)

fetchMessage_FullReload(reqs, id) ==
    Issue(reqs, "loadMessages", (CHOOSE row \in dbMessages : row.id = id).conversation_id,
          0, NoUser, << >>)

\* fetchMessage(messageId) up to its await
fetchMessage(reqs, id) == Issue(reqs, "fetchMessage", NoConversation, id, NoUser, << >>)

----------------------------------------------------------------------------
(* The Messages screen *)

\* useAuth() hands the component another user: the effect's deps changed, so
\* React runs the previous cleanup and then the effect again.
AuthChange(u) ==
    /\ mounted /\ page = "messages"
    /\ u # user
    /\ EffectRoom(user, u)
    /\ user' = u
    /\ channels' = EffectChannels(user, u, selectedConversation)
    /\ events' = {e \in events : e.ch \in ChannelIds(EffectCleanup(user, channels))}
    /\ requests' = fetchConversations(requests, u)
    /\ Room(requests')
    /\ Quiet
    /\ UNCHANGED <<page, faults, budgetVars, browseVars, projectsVars, mounted, conversations, selectedConversation, messages,
                   newMessage, loading, dbMessages>>

\* onClick of a conversation row (rendered once the list has loaded):
\* setSelectedConversation, loadMessages, and, the selection being a dep of the
\* subscribing effect, its cleanup and re-run when the selection changed.
selectConversation(c) ==
    /\ mounted /\ page = "messages"
    /\ user # NoUser /\ ~loading /\ c \in SeqToSet(conversations)
    /\ selectedConversation' = c
    /\ IF c # selectedConversation
       THEN /\ EffectRoom(user, user)
            /\ channels' = EffectChannels(user, user, c)
            /\ events' = {e \in events : e.ch \in ChannelIds(EffectCleanup(user, channels))}
            /\ requests' = fetchConversations(loadMessages(requests, c), user)
       ELSE /\ requests' = loadMessages(requests, c)
            /\ UNCHANGED <<channels, events>>
    /\ Room(requests')
    /\ Quiet
    /\ UNCHANGED <<page, faults, budgetVars, browseVars, projectsVars, mounted, user, conversations, messages, newMessage,
                   loading, dbMessages>>

\* onChange of the message input (rendered while a conversation is selected)
onChange(d) ==
    /\ mounted /\ page = "messages"
    /\ user # NoUser /\ selectedConversation # NoConversation
    /\ d # newMessage
    /\ newMessage' = d
    /\ Quiet
    /\ UNCHANGED <<page, faults, budgetVars, browseVars, projectsVars, mounted, user, conversations, selectedConversation,
                   messages, loading, channels, events, requests, dbMessages>>

sendMessageReturnsEarly_NoTrim ==
    newMessage = << >> \/ selectedConversation = NoConversation \/ user = NoUser

\* The guard that opens sendMessage
sendMessageReturnsEarly ==
    trim(newMessage) = << >> \/ selectedConversation = NoConversation \/ user = NoUser

\* sendMessage up to its await: Enter in the input or a click on Send
sendMessage ==
    /\ mounted /\ page = "messages"
    /\ user # NoUser /\ selectedConversation # NoConversation
    /\ IF sendMessageReturnsEarly
       THEN UNCHANGED requests
       ELSE requests' = Issue(requests, "sendMessage", selectedConversation, 0,
                              user, trim(newMessage))
    /\ Room(requests')
    /\ Quiet
    /\ UNCHANGED <<page, faults, budgetVars, browseVars, projectsVars, mounted, user, conversations, selectedConversation,
                   messages, newMessage, loading, channels, events, dbMessages>>

\* The row the data service stores for an insert
NewRow(c, sender, content) ==
    [id |-> Cardinality(dbMessages) + 1, conversation_id |-> c,
     sender_id |-> sender, content |-> content,
     created_at |-> Cardinality(dbMessages) + 1]

\* The change feed: one INSERT notification per channel that has joined
Notify(row) ==
    {[ch |-> channels[i].id, id |-> row.id, conversation_id |-> row.conversation_id] :
        i \in {j \in 1..Len(channels) : channels[j].status = "joined"}}

\* The data service runs the insert of a sendMessage call, or fails it
ServeSendMessage(r) ==
    /\ r \in requests /\ r.kind = "sendMessage" /\ r.status = "sent"
    /\ \/ /\ Cardinality(dbMessages) < MaxMsg
          /\ LET row == NewRow(r.conversation_id, r.user, r.content)
             IN  /\ dbMessages' = dbMessages \cup {row}
                 /\ events' = events \cup Notify(row)
          /\ requests' = (requests \ {r}) \cup {Answered(r, "ok", << >>)}
       \/ /\ faults
          /\ requests' = (requests \ {r}) \cup {Answered(r, "error", << >>)}
          /\ UNCHANGED <<dbMessages, events>>
    /\ UNCHANGED <<page, faults, budgetVars, browseVars, projectsVars, mounted, user, conversations, selectedConversation,
                   messages, newMessage, loading, channels, toast, consoleError>>

\* Another participant's client inserts a message into a conversation whose
\* rows this client may read
PeerInsert(c) ==
    /\ page = "messages"
    /\ \E u \in Users : IsParticipant(u, c)
    /\ Cardinality(dbMessages) < MaxMsg
    /\ LET row == NewRow(c, "peer", <<"a">>)
       IN  /\ dbMessages' = dbMessages \cup {row}
           /\ events' = events \cup Notify(row)
    /\ UNCHANGED <<page, faults, budgetVars, browseVars, projectsVars, mounted, user, conversations, selectedConversation,
                   messages, newMessage, loading, channels, requests, toast,
                   consoleError>>

sendMessageDone_Optimistic(r) ==
    /\ r \in requests /\ r.kind = "sendMessage" /\ r.status # "sent"
    /\ requests' = requests \ {r}
    /\ IF r.status = "error"
       THEN /\ consoleError' = "Error sending message:"
            /\ toast' = "Failed to send message"
            /\ UNCHANGED <<newMessage, messages>>
       ELSE /\ newMessage' = << >>
            /\ messages' = Append(messages,
                                  CHOOSE row \in dbMessages : row.content = r.content)
            /\ Quiet
    /\ UNCHANGED <<page, faults, budgetVars, browseVars, projectsVars, mounted, user, conversations,
                   selectedConversation, loading, channels, events, dbMessages>>

\* sendMessage after its await
sendMessageDone(r) ==
    /\ r \in requests /\ r.kind = "sendMessage" /\ r.status # "sent"
    /\ requests' = requests \ {r}
    /\ IF r.status = "error"
       THEN /\ consoleError' = "Error sending message:"
            /\ toast' = "Failed to send message"
            /\ UNCHANGED newMessage
       ELSE /\ newMessage' = << >>
            /\ Quiet
    /\ UNCHANGED <<page, faults, budgetVars, browseVars, projectsVars, mounted, user, conversations, selectedConversation,
                   messages, loading, channels, events, dbMessages>>

\* The data service runs the query of a loadMessages call, or fails it
ServeLoadMessages(r) ==
    /\ r \in requests /\ r.kind = "loadMessages" /\ r.status = "sent"
    /\ \/ requests' = (requests \ {r}) \cup
                        {Answered(r, "ok", QueryMessages(r.conversation_id))}
       \/ /\ faults
          /\ requests' = (requests \ {r}) \cup {Answered(r, "error", << >>)}
    /\ UNCHANGED <<page, faults, budgetVars, browseVars, projectsVars, mounted, user, conversations, selectedConversation,
                   messages, newMessage, loading, channels, events, dbMessages,
                   toast, consoleError>>

loadMessagesDone_ClearsOnError(r) ==
    /\ r \in requests /\ r.kind = "loadMessages" /\ r.status # "sent"
    /\ requests' = requests \ {r}
    /\ messages' = r.data
    /\ IF r.status = "error"
       THEN /\ consoleError' = "Error loading messages:"
            /\ toast' = "Failed to load messages"
       ELSE Quiet
    /\ UNCHANGED <<page, faults, budgetVars, browseVars, projectsVars, mounted, user, conversations,
                   selectedConversation, newMessage, loading, channels, events,
                   dbMessages>>

loadMessagesDone_Retry(r) ==
    /\ r \in requests /\ r.kind = "loadMessages" /\ r.status # "sent"
    /\ IF r.status = "error"
       THEN /\ consoleError' = "Error loading messages:"
            /\ toast' = "Failed to load messages"
            /\ requests' = Issue(requests \ {r}, "loadMessages", r.conversation_id,
                                 0, NoUser, << >>)
            /\ UNCHANGED messages
       ELSE /\ messages' = r.data
            /\ requests' = requests \ {r}
            /\ Quiet
    /\ UNCHANGED <<page, faults, budgetVars, browseVars, projectsVars, mounted, user, conversations,
                   selectedConversation, newMessage, loading, channels, events,
                   dbMessages>>

\* loadMessages after its await
loadMessagesDone(r) ==
    /\ r \in requests /\ r.kind = "loadMessages" /\ r.status # "sent"
    /\ requests' = requests \ {r}
    /\ IF r.status = "error"
       THEN /\ consoleError' = "Error loading messages:"
            /\ toast' = "Failed to load messages"
            /\ UNCHANGED messages
       ELSE /\ messages' = r.data
            /\ Quiet
    /\ UNCHANGED <<page, faults, budgetVars, browseVars, projectsVars, mounted, user, conversations, selectedConversation,
                   newMessage, loading, channels, events, dbMessages>>

appendMessage_Prepend(prev, data) == <<data>> \o prev

appendMessage_Dedup(prev, data) ==
    IF \E i \in 1..Len(prev) : prev[i].id = data.id THEN prev ELSE Append(prev, data)

\* setMessages(prev => [...prev, data as Message])
appendMessage(prev, data) == Append(prev, data)

fetchMessageAnswered_Toasts(r, error) ==
    /\ r \in requests /\ r.kind = "fetchMessage"
    /\ requests' = requests \ {r}
    /\ IF error
       THEN /\ consoleError' = "Error fetching message:"
            /\ toast' = "Failed to load message"
            /\ UNCHANGED messages
       ELSE /\ messages' = Append(messages, QueryMessage(r.id))
            /\ Quiet
    /\ UNCHANGED <<page, faults, budgetVars, browseVars, projectsVars, mounted, user, conversations,
                   selectedConversation, newMessage, loading, channels, events,
                   dbMessages>>

\* fetchMessage after its await, for an answer with or without an error
fetchMessageAnswered(r, error) ==
    /\ r \in requests /\ r.kind = "fetchMessage"
    /\ requests' = requests \ {r}
    /\ IF error
       THEN /\ consoleError' = "Error fetching message:"
            /\ toast' = None
            /\ UNCHANGED messages
       ELSE /\ messages' = appendMessage(messages, QueryMessage(r.id))
            /\ Quiet
    /\ UNCHANGED <<page, faults, budgetVars, browseVars, projectsVars, mounted, user, conversations, selectedConversation,
                   newMessage, loading, channels, events, dbMessages>>

\* fetchConversations after its await, for an answer with or without an error
fetchConversationsAnswered(r, error) ==
    /\ r \in requests /\ r.kind = "fetchConversations"
    /\ requests' = requests \ {r}
    /\ IF error
       THEN /\ consoleError' = "Error fetching conversations:"
            /\ toast' = "Failed to load conversations"
            /\ UNCHANGED <<conversations, loading>>
       ELSE /\ conversations' = userConversations(AllConversations, r.user)
            /\ loading' = FALSE
            /\ Quiet
    /\ UNCHANGED <<page, faults, budgetVars, browseVars, projectsVars, mounted, user, selectedConversation, messages,
                   newMessage, channels, events, dbMessages>>

\* The single-row query answers or fails
fetchMessageDone(r) == \E error \in Errors : fetchMessageAnswered(r, error)

\* The query answers every conversation or fails
fetchConversationsDone(r) == \E error \in Errors : fetchConversationsAnswered(r, error)

\* The realtime server acknowledges a channel's subscription
ChannelJoined(i) ==
    /\ i \in 1..Len(channels) /\ channels[i].status = "joining"
    /\ channels' = [channels EXCEPT ![i].status = "joined"]
    /\ UNCHANGED <<page, faults, budgetVars, browseVars, projectsVars, mounted, user, conversations, selectedConversation,
                   messages, newMessage, loading, events, requests, dbMessages,
                   toast, consoleError>>

Channel(id) == CHOOSE i \in 1..Len(channels) : channels[i].id = id

isForSelected_Always(conversation_id, selected) == TRUE

isForSelected_Never(conversation_id, selected) == FALSE

\* newMessage.conversation_id === selectedConversation, in the handler's closure
isForSelected(conversation_id, selected) == conversation_id = selected

\* The channel's postgres_changes handler (Messages.tsx:70-76) runs for a
\* delivered INSERT notification
OnInsert(e) ==
    /\ e \in events
    /\ events' = events \ {e}
    /\ IF isForSelected(e.conversation_id, channels[Channel(e.ch)].selectedConversation)
       THEN requests' = fetchMessage(requests, e.id)
       ELSE UNCHANGED requests
    /\ Room(requests')
    /\ Quiet
    /\ UNCHANGED <<page, faults, budgetVars, browseVars, projectsVars, mounted, user, conversations, selectedConversation,
                   messages, newMessage, loading, channels, dbMessages>>

\* The screen is unmounted: React runs the effect's last cleanup and discards
\* the component's state cells; the calls still in flight belong to the
\* discarded instance and are followed no further.
Unmount ==
    /\ mounted /\ page = "messages"
    /\ mounted' = FALSE
    /\ channels' = EffectCleanup(user, channels)
    /\ events' = {e \in events : e.ch \in ChannelIds(EffectCleanup(user, channels))}
    /\ conversations' = << >>
    /\ selectedConversation' = NoConversation
    /\ messages' = << >>
    /\ newMessage' = << >>
    /\ loading' = TRUE
    /\ requests' = {}
    /\ Quiet
    /\ UNCHANGED <<page, faults, budgetVars, browseVars, projectsVars, user, dbMessages>>

----------------------------------------------------------------------------
(* Specifications *)

Init ==
    /\ page = "messages"
    /\ faults = TRUE
    /\ mounted = TRUE
    /\ user = NoUser
    /\ conversations = << >>
    /\ selectedConversation = NoConversation
    /\ messages = << >>
    /\ newMessage = << >>
    /\ loading = TRUE
    /\ channels = << >>
    /\ events = {}
    /\ requests = {}
    /\ dbMessages = {}
    /\ profile = None
    /\ projects = << >>
    /\ myProjects = << >>
    /\ applications = << >>
    /\ dbApplications = << >>
    /\ coders = << >>
    /\ teams = << >>
    /\ dbFollows = {}
    /\ budget_min = << >>
    /\ budget_max = << >>
    /\ budget = << >>
    /\ toast = None
    /\ consoleError = None

\* The Messages screen while the user reads: signing in and out, opening
\* conversations, the change feed and the calls it causes.
Next ==
    \/ \E u \in Users \cup {NoUser} : AuthChange(u)
    \/ \E c \in ConversationIds : selectConversation(c)
    \/ \E c \in ConversationIds : PeerInsert(c)
    \/ \E r \in requests : ServeLoadMessages(r)
    \/ \E r \in requests : loadMessagesDone(r)
    \/ \E r \in requests : fetchMessageDone(r)
    \/ \E r \in requests : fetchConversationsDone(r)
    \/ \E i \in 1..MaxChannels : ChannelJoined(i)
    \/ \E e \in events : OnInsert(e)
    \/ Unmount

Spec == Init /\ [][Next]_vars

\* The steps that need no user: the data service answers, the answers'
\* continuations run, channels join and notifications are handled
Progress ==
    \/ \E r \in requests : ServeLoadMessages(r)
    \/ \E r \in requests : loadMessagesDone(r)
    \/ \E r \in requests : fetchMessageDone(r)
    \/ \E r \in requests : fetchConversationsDone(r)
    \/ \E i \in 1..MaxChannels : ChannelJoined(i)
    \/ \E e \in events : OnInsert(e)

\* The same screen when every call is answered in the end
SpecLive == Init /\ [][Next]_vars /\ WF_vars(Progress)

\* The same screen over a data service that fails no call
InitReliable ==
    /\ page = "messages"
    /\ faults = FALSE
    /\ mounted = TRUE
    /\ user = NoUser
    /\ conversations = << >>
    /\ selectedConversation = NoConversation
    /\ messages = << >>
    /\ newMessage = << >>
    /\ loading = TRUE
    /\ channels = << >>
    /\ events = {}
    /\ requests = {}
    /\ dbMessages = {}
    /\ profile = None
    /\ projects = << >>
    /\ myProjects = << >>
    /\ applications = << >>
    /\ dbApplications = << >>
    /\ coders = << >>
    /\ teams = << >>
    /\ dbFollows = {}
    /\ budget_min = << >>
    /\ budget_max = << >>
    /\ budget = << >>
    /\ toast = None
    /\ consoleError = None

SpecReliable == InitReliable /\ [][Next]_vars

\* The same screen over a data service that fails no call, when every call is
\* answered, every continuation runs, every channel joins and every delivered
\* notification is handled
SpecDelivery ==
    /\ InitReliable /\ [][Next]_vars
    /\ WF_vars(\E r \in requests : ServeLoadMessages(r))
    /\ WF_vars(\E r \in requests : loadMessagesDone(r))
    /\ WF_vars(\E r \in requests : fetchMessageDone(r))
    /\ WF_vars(\E r \in requests : fetchConversationsDone(r))
    /\ WF_vars(\E i \in 1..MaxChannels : ChannelJoined(i))
    /\ SF_vars(\E e \in events : OnInsert(e))

\* The Messages screen while the user composes in an open conversation: "u1"
\* is signed in, the list has loaded and conversation "A" stays open with its
\* channel joined (a state Spec reaches).
InitCompose ==
    /\ page = "messages"
    /\ faults = TRUE
    /\ mounted = TRUE
    /\ user = "u1"
    /\ conversations = userConversations(AllConversations, "u1")
    /\ selectedConversation = "A"
    /\ messages = << >>
    /\ newMessage = << >>
    /\ loading = FALSE
    /\ channels = <<[id |-> 1, selectedConversation |-> "A", status |-> "joined"]>>
    /\ events = {}
    /\ requests = {}
    /\ dbMessages = {}
    /\ profile = None
    /\ projects = << >>
    /\ myProjects = << >>
    /\ applications = << >>
    /\ dbApplications = << >>
    /\ coders = << >>
    /\ teams = << >>
    /\ dbFollows = {}
    /\ budget_min = << >>
    /\ budget_max = << >>
    /\ budget = << >>
    /\ toast = None
    /\ consoleError = None

NextCompose ==
    \/ \E d \in ComposeDrafts : onChange(d)
    \/ sendMessage
    \/ \E r \in requests : ServeSendMessage(r)
    \/ \E r \in requests : sendMessageDone(r)
    \/ \E c \in ConversationIds : PeerInsert(c)
    \/ \E r \in requests : fetchMessageDone(r)
    \/ \E e \in events : OnInsert(e)

SpecCompose == InitCompose /\ [][NextCompose]_vars

----------------------------------------------------------------------------
(* Properties of the Messages screen *)

\* No call that writes the displayed list is awaiting its answer.
Quiescent ==
    ~ \E r \in requests : r.kind \in {"loadMessages", "fetchMessage"}

OfConversation(c) ==
    {i \in 1..Len(messages) : messages[i].conversation_id = c}

Count(id) == Cardinality({i \in 1..Len(messages) : messages[i].id = id})

IsOrdered(list) ==
    \A i, j \in 1..Len(list) : i < j => list[i].created_at <= list[j].created_at

\* fetchMessage's continuation took the success path for call r
Fetched(r) == fetchMessageDone(r) /\ consoleError' = None

\* C1: after a switch of conversation, once the calls in flight have completed,
\* the displayed list holds the messages of the selected conversation and none
\* carried over from the one open before, whatever the order of the answers.
C1_SwitchReplaces ==
    (mounted /\ selectedConversation # NoConversation /\ Quiescent
            /\ OfConversation(selectedConversation) # {})
        => OfConversation(selectedConversation) = 1..Len(messages)

\* C2: the handler, run for an INSERT notification of a conversation other than
\* the selected one (or with none selected), issues no call and leaves the
\* displayed list as it was.
C2_OtherConversationIgnored ==
    [][\A e \in events :
          (OnInsert(e) /\ e.conversation_id # selectedConversation)
              => (requests' = requests /\ messages' = messages)]_vars

C2_Witness ==
    /\ selectedConversation # NoConversation /\ messages # << >>
    /\ \E e \in events : e.conversation_id # selectedConversation

\* C3: for an INSERT notification of the selected conversation the handler
\* issues the single-row fetch of that id, and a fetch that succeeds puts the
\* row at the end of the list, every earlier element keeping its position.
C3_FetchedRowAppended ==
    [][/\ \A e \in events :
            (OnInsert(e) /\ e.conversation_id = selectedConversation)
                => \E r \in requests' \ requests :
                      /\ r.kind = "fetchMessage" /\ r.id = e.id
                      /\ requests' = requests \cup {r}
       /\ \A r \in requests :
            Fetched(r)
                => /\ Len(messages') = Len(messages) + 1
                   /\ SubSeq(messages', 1, Len(messages)) = messages
                   /\ messages'[Len(messages')].id = r.id]_vars

C3_Witness ==
    /\ Len(messages) >= 2
    /\ messages[Len(messages)].created_at < messages[Len(messages) - 1].created_at
    /\ \E r \in requests : r.kind = "fetchMessage"

\* C13: a notification is received without a full refetch: the handler issues
\* at most the single-row query of the notified id, its continuation issues
\* nothing, and neither sends the conversation-list query or the message-list
\* query.
C13_NoFullRefetch ==
    [][/\ \A e \in events :
            OnInsert(e)
                => /\ requests \subseteq requests'
                   /\ \A q \in requests' \ requests :
                         q.kind = "fetchMessage" /\ q.id = e.id
       /\ \A r \in requests :
            fetchMessageDone(r) => requests' = requests \ {r}]_vars

C13_Witness ==
    /\ \E r \in requests : r.kind = "fetchMessage"
    /\ ~ \E r \in requests : r.kind \in {"loadMessages", "fetchConversations"}
    /\ messages # << >> /\ events # {}

\* C15: on the Messages screen the loading flag of a signed-in user is true
\* while the initial fetchConversations is pending and becomes false once it
\* has completed, whether it succeeded or failed.
C15_LoadingEnds ==
    (mounted /\ user # NoUser /\ loading) ~> (~loading \/ ~mounted \/ user = NoUser)

\* C19: whenever no loadMessages or fetchMessage call is in flight, every
\* message of the displayed list belongs to the selected conversation.
C19_ListOfSelected ==
    (mounted /\ Quiescent)
        => \A i \in 1..Len(messages) : messages[i].conversation_id = selectedConversation

\* The message with this id is in the displayed list
Shown(id) == \E i \in 1..Len(messages) : messages[i].id = id

\* The conversation of the row with this id is open on a signed-in screen
Open(id) ==
    /\ mounted /\ user # NoUser
    /\ \E row \in dbMessages : row.id = id /\ row.conversation_id = selectedConversation

\* A notification for the row is on its way to the channel of the open
\* conversation
Notified(id) ==
    /\ Open(id)
    /\ \E e \in events :
          e.id = id /\ channels[Channel(e.ch)].selectedConversation = selectedConversation

\* C20 as claimed: with every notification delivered and every fetch
\* succeeding, each message of the open conversation is displayed in the end
\* while the conversation stays selected, also one inserted between the
\* loadMessages query and the moment the new subscription is active.
C20_EveryMessageAppears ==
    \A id \in 1..MaxMsg : Open(id) ~> (Shown(id) \/ ~Open(id))

\* C20 as amended: a message whose notification reaches the channel of the
\* open conversation is displayed in the end while the conversation stays
\* selected.
C20_NotifiedMessageAppears ==
    \A id \in 1..MaxMsg : Notified(id) ~> (Shown(id) \/ ~Open(id))

C20_Witness ==
    /\ \E id \in 1..MaxMsg : Notified(id) /\ ~Shown(id)
    /\ Quiescent /\ messages # << >>

\* C4: once fetchConversations has succeeded, a conversation the data service
\* returned is in the list exactly when the signed-in user is one of its
\* participants.
C4_ListIsParticipantFilter ==
    (mounted /\ user # NoUser /\ ~loading)
        => \A c \in ConversationIds :
              c \in SeqToSet(conversations) <=> user \in conversation_participants(c)

C4_Witness ==
    /\ mounted /\ user # NoUser /\ ~loading
    /\ \E c \in ConversationIds : c \notin SeqToSet(conversations)
    /\ conversations # << >>

\* C5: sendMessage with an empty or whitespace-only draft issues no call and
\* leaves the draft, the selection, the displayed list and the table alone.
C5_BlankSendIsNoOp ==
    [][(sendMessage /\ \A i \in 1..Len(newMessage) : newMessage[i] = " ")
          => UNCHANGED <<requests, newMessage, selectedConversation, messages,
                         dbMessages, events>>]_vars

C5_Witness ==
    /\ newMessage = <<" ">> /\ selectedConversation # NoConversation
    /\ toast # None

\* C8: the client does not de-duplicate: every fetch that succeeds lengthens
\* the list by one and adds one entry of that id, also when the list already
\* holds the id, so the same message can be shown twice.
C8_NoDeduplication ==
    [][\A r \in requests :
          Fetched(r)
              => /\ Len(messages') = Len(messages) + 1
                 /\ Cardinality({i \in 1..Len(messages') : messages'[i].id = r.id})
                        = Count(r.id) + 1]_vars

C8_Witness == \E i, j \in 1..Len(messages) : i # j /\ messages[i].id = messages[j].id

\* C9 as claimed: the displayed list is ordered by created_at in every state.
C9_AlwaysOrdered == IsOrdered(messages)

\* C9 as amended: the list a successful loadMessages sets is ordered by
\* created_at (rows appended afterwards follow in the order their fetches end).
C9_LoadedListOrdered ==
    [][\A r \in requests :
          (loadMessagesDone(r) /\ r.status = "ok")
              => (messages' = r.data /\ IsOrdered(messages'))]_vars

C9_Witness ==
    /\ Len(messages) >= 2 /\ IsOrdered(messages)
    /\ messages[1].id # messages[2].id
    /\ Quiescent

\* C10: the screen holds at most one channel at any time, and none once it is
\* unmounted.
C10_OneSubscription ==
    /\ Len(channels) <= 1
    /\ ~mounted => channels = << >>

C10_Witness ==
    /\ Len(channels) = 1 /\ channels[1].selectedConversation = "B"
    /\ channels[1].status = "joined"

----------------------------------------------------------------------------
(* The Projects screen *)

\* fetchProjects() up to its await
fetchProjects(reqs) == Issue(reqs, "fetchProjects", NoConversation, 0, NoUser, << >>)

\* fetchMyProjects() up to its await: `if (!user) return` first
fetchMyProjects(reqs, u) ==
    IF u = NoUser THEN reqs
    ELSE Issue(reqs, "fetchMyProjects", NoConversation, 0, u, << >>)

\* fetchMyApplications() up to its await: `if (!user) return` first
fetchMyApplications(reqs, u) ==
    IF u = NoUser THEN reqs
    ELSE Issue(reqs, "fetchMyApplications", NoConversation, 0, u, << >>)

\* The body of the effect on [user, profile]
ProjectsEffect(reqs, u, role) ==
    IF u = NoUser THEN reqs
    ELSE LET first == fetchProjects(reqs)
         IN  IF role = "hirer" THEN fetchMyProjects(first, u)
             ELSE IF role = "coder" THEN fetchMyApplications(first, u)
             ELSE first

\* useAuth() hands the component another user or profile: the effect runs again
ProjectsAuthChange(u, role) ==
    /\ mounted /\ page = "projects"
    /\ <<u, role>> # <<user, profile>>
    /\ u = NoUser => role = None
    /\ user' = u
    /\ profile' = role
    /\ requests' = ProjectsEffect(requests, u, role)
    /\ Room(requests')
    /\ Quiet
    /\ UNCHANGED <<page, faults, budgetVars, browseVars, mounted, loading, messagesVars, projects,
                   myProjects, applications, dbApplications>>

\* handleApplyToProject(projectId) up to its await
handleApplyToProject(reqs, projectId, u) ==
    IF u = NoUser THEN reqs
    ELSE Issue(reqs, "apply", NoConversation, projectId, u, << >>)

ApplyClick_AnyRole(projectId) ==
    /\ mounted /\ page = "projects"
    /\ user # NoUser /\ ~loading /\ projectId \in SeqToSet(projects)
    /\ requests' = Issue(requests, "apply", NoConversation, projectId, user, << >>)
    /\ Room(requests')
    /\ Quiet
    /\ UNCHANGED <<page, faults, budgetVars, browseVars, mounted, user, loading, messagesVars,
                   projectsVars>>

\* onClick of the button of a project card of the Browse tab (rendered once the
\* list has loaded): it applies only for a coder
ApplyClick(projectId) ==
    /\ mounted /\ page = "projects"
    /\ user # NoUser /\ ~loading /\ projectId \in SeqToSet(projects)
    /\ requests' = IF profile = "coder"
                   THEN handleApplyToProject(requests, projectId, user)
                   ELSE requests
    /\ Room(requests')
    /\ Quiet
    /\ UNCHANGED <<page, faults, budgetVars, browseVars, mounted, user, loading, messagesVars,
                   projectsVars>>

HasApplication(projectId, coder) ==
    \E i \in 1..Len(dbApplications) :
        /\ dbApplications[i].project_id = projectId
        /\ dbApplications[i].coder_id = coder

\* The data service runs the insert of an application: the table's uniqueness
\* constraint on (project, coder) rejects a second row; any call may fail
\* otherwise.
ServeApply(r) ==
    /\ r \in requests /\ r.kind = "apply" /\ r.status = "sent"
    /\ \/ /\ ~ HasApplication(r.id, r.user)
          /\ dbApplications' = Append(dbApplications,
                                      [project_id |-> r.id, coder_id |-> r.user])
          /\ requests' = (requests \ {r}) \cup {Answered(r, "ok", << >>)}
       \/ /\ HasApplication(r.id, r.user)
          /\ requests' = (requests \ {r}) \cup
                            {[Answered(r, "error", << >>) EXCEPT !.code = UniqueViolation]}
          /\ UNCHANGED dbApplications
       \/ /\ faults
          /\ \E code \in OtherErrorCodes :
                requests' = (requests \ {r}) \cup
                               {[Answered(r, "error", << >>) EXCEPT !.code = code]}
          /\ UNCHANGED dbApplications
    /\ UNCHANGED <<page, faults, budgetVars, browseVars, mounted, user, loading, messagesVars, profile,
                   projects, myProjects, applications, toast, consoleError>>

applyErrorToast_AlwaysGeneric(code) == "Failed to apply to project"

applyErrorToast_AnyError(code) == "You have already applied to this project"

\* The toast of handleApplyToProject's error branch
applyErrorToast(code) ==
    IF code = "23505" THEN "You have already applied to this project"
    ELSE "Failed to apply to project"

\* handleApplyToProject after its await
handleApplyToProjectDone(r) ==
    /\ r \in requests /\ r.kind = "apply" /\ r.status # "sent"
    /\ IF r.status = "error"
       THEN /\ toast' = applyErrorToast(r.code)
            /\ requests' = requests \ {r}
       ELSE /\ toast' = "Application submitted successfully"
            /\ requests' = fetchProjects(requests \ {r})
    /\ Room(requests')
    /\ consoleError' = None
    /\ UNCHANGED <<page, faults, budgetVars, browseVars, mounted, user, loading, messagesVars,
                   projectsVars>>

\* fetchProjects after its await, for an answer with or without an error
fetchProjectsAnswered(r, error) ==
    /\ r \in requests /\ r.kind = "fetchProjects"
    /\ requests' = requests \ {r}
    /\ IF error
       THEN /\ consoleError' = "Error fetching projects:"
            /\ toast' = "Failed to load projects"
            /\ UNCHANGED <<projects, loading>>
       ELSE /\ projects' = OpenProjects
            /\ loading' = FALSE
            /\ Quiet
    /\ UNCHANGED <<page, faults, budgetVars, browseVars, mounted, user, messagesVars, profile,
                   myProjects, applications, dbApplications>>

\* fetchMyProjects after its await, for an answer with or without an error
fetchMyProjectsAnswered(r, error) ==
    /\ r \in requests /\ r.kind = "fetchMyProjects"
    /\ requests' = requests \ {r}
    /\ IF error
       THEN /\ consoleError' = "Error fetching my projects:"
            /\ toast' = None
            /\ UNCHANGED myProjects
       ELSE /\ myProjects' = SelectSeq(OpenProjects, LAMBDA p : hirer_id(p) = r.user)
            /\ Quiet
    /\ UNCHANGED <<page, faults, budgetVars, browseVars, mounted, user, loading, messagesVars, profile,
                   projects, applications, dbApplications>>

\* fetchMyApplications after its await, for an answer with or without an
\* error: the coder's rows, newest first
fetchMyApplicationsAnswered(r, error) ==
    /\ r \in requests /\ r.kind = "fetchMyApplications"
    /\ requests' = requests \ {r}
    /\ IF error
       THEN /\ consoleError' = "Error fetching applications:"
            /\ toast' = None
            /\ UNCHANGED applications
       ELSE /\ applications' =
                  Reverse(SelectSeq(dbApplications, LAMBDA a : a.coder_id = r.user))
            /\ Quiet
    /\ UNCHANGED <<page, faults, budgetVars, browseVars, mounted, user, loading, messagesVars, profile,
                   projects, myProjects, dbApplications>>

\* The queries answer or fail
fetchProjectsDone(r) == \E error \in Errors : fetchProjectsAnswered(r, error)

fetchMyProjectsDone(r) == \E error \in Errors : fetchMyProjectsAnswered(r, error)

fetchMyApplicationsDone(r) == \E error \in Errors : fetchMyApplicationsAnswered(r, error)

InitProjects ==
    /\ page = "projects"
    /\ faults = TRUE
    /\ mounted = TRUE
    /\ user = NoUser
    /\ profile = None
    /\ loading = TRUE
    /\ projects = << >>
    /\ myProjects = << >>
    /\ applications = << >>
    /\ dbApplications = << >>
    /\ coders = << >>
    /\ teams = << >>
    /\ dbFollows = {}
    /\ budget_min = << >>
    /\ budget_max = << >>
    /\ budget = << >>
    /\ conversations = << >>
    /\ selectedConversation = NoConversation
    /\ messages = << >>
    /\ newMessage = << >>
    /\ channels = << >>
    /\ events = {}
    /\ requests = {}
    /\ dbMessages = {}
    /\ toast = None
    /\ consoleError = None

NextProjects ==
    \/ \E u \in Users \cup {NoUser}, role \in Roles \cup {None} :
          ProjectsAuthChange(u, role)
    \/ \E p \in SeqToSet(OpenProjects) : ApplyClick(p)
    \/ \E r \in requests : ServeApply(r)
    \/ \E r \in requests : handleApplyToProjectDone(r)
    \/ \E r \in requests : fetchProjectsDone(r)
    \/ \E r \in requests : fetchMyProjectsDone(r)
    \/ \E r \in requests : fetchMyApplicationsDone(r)

SpecProjects == InitProjects /\ [][NextProjects]_vars

\* The same screen over a data service that fails no call other than by the
\* uniqueness constraint, when every call is answered and every continuation
\* runs
InitProjectsReliable ==
    /\ page = "projects"
    /\ faults = FALSE
    /\ mounted = TRUE
    /\ user = NoUser
    /\ profile = None
    /\ loading = TRUE
    /\ projects = << >>
    /\ myProjects = << >>
    /\ applications = << >>
    /\ dbApplications = << >>
    /\ coders = << >>
    /\ teams = << >>
    /\ dbFollows = {}
    /\ budget_min = << >>
    /\ budget_max = << >>
    /\ budget = << >>
    /\ conversations = << >>
    /\ selectedConversation = NoConversation
    /\ messages = << >>
    /\ newMessage = << >>
    /\ channels = << >>
    /\ events = {}
    /\ requests = {}
    /\ dbMessages = {}
    /\ toast = None
    /\ consoleError = None

SpecProjectsLive ==
    /\ InitProjectsReliable /\ [][NextProjects]_vars
    /\ WF_vars(\E r \in requests : ServeApply(r))
    /\ WF_vars(\E r \in requests : handleApplyToProjectDone(r))
    /\ WF_vars(\E r \in requests : fetchProjectsDone(r))
    /\ WF_vars(\E r \in requests : fetchMyProjectsDone(r))
    /\ WF_vars(\E r \in requests : fetchMyApplicationsDone(r))

----------------------------------------------------------------------------
(* Properties of the Projects screen *)

Rows(projectId, coder) ==
    Cardinality({i \in 1..Len(dbApplications) :
                    /\ dbApplications[i].project_id = projectId
                    /\ dbApplications[i].coder_id = coder})

\* The answer the data service gave in this step to call r
AnswerTo(r) ==
    CHOOSE a \in requests' \ requests : a.kind = r.kind /\ a.n = r.n /\ a.id = r.id

\* C6 as claimed: an apply for a (project, coder) pair that already has a row
\* surfaces the 'already applied' message and the pair keeps one row, for any
\* number of repeated or concurrent applies.
C6_DuplicateSurfacesAlreadyApplied ==
    [][/\ \A r \in requests :
            /\ (ServeApply(r) /\ HasApplication(r.id, r.user))
                  => AnswerTo(r).code = UniqueViolation
            /\ (handleApplyToProjectDone(r) /\ r.code = UniqueViolation)
                  => toast' = "You have already applied to this project"
       /\ \A p \in SeqToSet(OpenProjects), u \in Users : Rows(p, u)' <= 1]_vars

\* C6 as amended: such an apply never adds a row and never reports success; it
\* surfaces the 'already applied' message when the data service answers with
\* the unique violation, and the generic message when the call fails otherwise.
C6_DuplicateNeverAddsRow ==
    [][/\ \A r \in requests :
            /\ (ServeApply(r) /\ HasApplication(r.id, r.user))
                  => /\ AnswerTo(r).status = "error"
                     /\ dbApplications' = dbApplications
            /\ (handleApplyToProjectDone(r) /\ r.status = "error")
                  => toast' = IF r.code = UniqueViolation
                              THEN "You have already applied to this project"
                              ELSE "Failed to apply to project"
       /\ \A p \in SeqToSet(OpenProjects), u \in Users : Rows(p, u)' <= 1]_vars

C6_Witness ==
    /\ toast = "You have already applied to this project"
    /\ \E p \in SeqToSet(OpenProjects) : Rows(p, user) = 1
    /\ \E r \in requests : r.kind = "apply" /\ r.code = UniqueViolation

\* C7: handleApplyToProject maps each answer to one outcome: 'already applied'
\* exactly for the unique violation, the generic message for every other error,
\* and the success message with a refetch of the projects only for no error.
IssuedFetchProjects(r) ==
    \E f \in requests' \ requests :
        f.kind = "fetchProjects" /\ requests' = (requests \ {r}) \cup {f}

C7_ApplyOutcome ==
    [][\A r \in requests :
          handleApplyToProjectDone(r)
              => /\ (toast' = "You have already applied to this project")
                        <=> (r.status = "error" /\ r.code = "23505")
                 /\ (toast' = "Failed to apply to project")
                        <=> (r.status = "error" /\ r.code # "23505")
                 /\ (toast' = "Application submitted successfully")
                        <=> r.status = "ok"
                 /\ IssuedFetchProjects(r) <=> r.status = "ok"
                 /\ r.status = "error" => requests' = requests \ {r}]_vars

C7_Witness ==
    /\ toast = "Application submitted successfully"
    /\ \E r \in requests : r.kind = "fetchProjects"
    /\ \E r \in requests : r.kind = "apply" /\ r.status = "error" /\ r.code = "42501"

\* The decimal digits of a number, as a template literal writes them
RECURSIVE ToString(_)
ToString(n) ==
    LET digit == <<"0", "1", "2", "3", "4", "5", "6", "7", "8", "9">>[(n % 10) + 1]
    IN  IF n < 10 THEN <<digit>> ELSE Append(ToString(n \div 10), digit)

\* A number | null in a condition: null and 0 are falsy
Truthy(b) == b # << >> /\ b[1] # 0

\* formatBudget(min, max): the text is a sequence of pieces
formatBudget(min, max) ==
    IF ~Truthy(min) /\ ~Truthy(max) THEN <<"Budget not specified">>
    ELSE IF Truthy(min) /\ Truthy(max)
         THEN <<"$">> \o ToString(min[1]) \o <<" - $">> \o ToString(max[1])
    ELSE IF Truthy(min) THEN <<"From $">> \o ToString(min[1])
    ELSE IF Truthy(max) THEN <<"Up to $">> \o ToString(max[1])
    ELSE <<"Budget not specified">>

\* A project card renders its budget line
ProjectCard ==
    /\ page = "projects"
    /\ budget' = formatBudget(budget_min, budget_max)
    /\ UNCHANGED <<page, faults, mounted, user, loading, requests, toast,
                   consoleError, messagesVars, projectsVars, browseVars,
                   budget_min, budget_max>>

\* A card of a project with any budget columns, before it has rendered
InitBudget ==
    /\ page = "projects"
    /\ faults = TRUE
    /\ mounted = TRUE
    /\ user = NoUser
    /\ profile = None
    /\ loading = TRUE
    /\ projects = << >>
    /\ myProjects = << >>
    /\ applications = << >>
    /\ dbApplications = << >>
    /\ coders = << >>
    /\ teams = << >>
    /\ dbFollows = {}
    /\ budget_min \in Budgets
    /\ budget_max \in Budgets
    /\ budget = << >>
    /\ conversations = << >>
    /\ selectedConversation = NoConversation
    /\ messages = << >>
    /\ newMessage = << >>
    /\ channels = << >>
    /\ events = {}
    /\ requests = {}
    /\ dbMessages = {}
    /\ toast = None
    /\ consoleError = None

NextBudget == ProjectCard

SpecBudget == InitBudget /\ [][NextBudget]_vars

----------------------------------------------------------------------------
(* The Browse screen *)

\* The coder profiles in the order the query returns them (xp descending),
\* and the teams (created_at descending), by id.
Coders == <<2, 1>>

Teams == <<1>>

\* fetchCoders() up to its await
fetchCoders(reqs) == Issue(reqs, "fetchCoders", NoConversation, 0, NoUser, << >>)

\* fetchTeams() up to its await
fetchTeams(reqs) == Issue(reqs, "fetchTeams", NoConversation, 0, NoUser, << >>)

\* handleFollow(profileId) up to its await: `if (!user) return` first
handleFollow(reqs, profileId, u) ==
    IF u = NoUser THEN reqs
    ELSE Issue(reqs, "follow", NoConversation, profileId, u, << >>)

\* useAuth() hands the component another user; the effect has no deps and does
\* not run again
BrowseAuthChange(u) ==
    /\ mounted /\ page = "browse"
    /\ u # user
    /\ user' = u
    /\ Quiet
    /\ UNCHANGED <<page, faults, budgetVars, mounted, loading, requests, messagesVars,
                   projectsVars, browseVars>>

\* onClick of the Follow button of a coder card (rendered once loading is
\* over, disabled without a user)
FollowClick(profileId) ==
    /\ mounted /\ page = "browse"
    /\ ~loading /\ user # NoUser /\ profileId \in SeqToSet(coders)
    /\ requests' = handleFollow(requests, profileId, user)
    /\ Room(requests')
    /\ Quiet
    /\ UNCHANGED <<page, faults, budgetVars, mounted, user, loading, messagesVars,
                   projectsVars, browseVars>>

\* fetchCoders after its await, for an answer with or without an error
fetchCodersAnswered(r, error) ==
    /\ r \in requests /\ r.kind = "fetchCoders"
    /\ requests' = requests \ {r}
    /\ IF error
       THEN /\ consoleError' = "Error fetching coders:"
            /\ UNCHANGED coders
       ELSE /\ coders' = Coders
            /\ consoleError' = None
    /\ toast' = None
    /\ UNCHANGED <<page, faults, budgetVars, mounted, user, loading, messagesVars,
                   projectsVars, teams, dbFollows>>

fetchTeamsFinally_OnSuccessOnly(error, flag) == IF error THEN flag ELSE FALSE

\* finally { setLoading(false) }
fetchTeamsFinally(error, flag) == FALSE

\* fetchTeams after its await, for an answer with or without an error
fetchTeamsAnswered(r, error) ==
    /\ r \in requests /\ r.kind = "fetchTeams"
    /\ requests' = requests \ {r}
    /\ IF error
       THEN /\ consoleError' = "Error fetching teams:"
            /\ UNCHANGED teams
       ELSE /\ teams' = Teams
            /\ consoleError' = None
    /\ loading' = fetchTeamsFinally(error, loading)
    /\ toast' = None
    /\ UNCHANGED <<page, faults, budgetVars, mounted, user, messagesVars, projectsVars,
                   coders, dbFollows>>

handleFollowAnswered_AlwaysRefetch(r, error) ==
    /\ r \in requests /\ r.kind = "follow"
    /\ IF error
       THEN /\ consoleError' = "Error following user:"
            /\ UNCHANGED dbFollows
       ELSE /\ dbFollows' = dbFollows \cup
                               {[follower_id |-> r.user, following_id |-> r.id]}
            /\ consoleError' = None
    /\ requests' = Issue(requests \ {r}, "fetchCoders", NoConversation, 0, NoUser, << >>)
    /\ Room(requests')
    /\ toast' = None
    /\ UNCHANGED <<page, faults, budgetVars, mounted, user, loading, messagesVars,
                   projectsVars, coders, teams>>

\* handleFollow after its await: the insert into follows was stored or failed
handleFollowAnswered(r, error) ==
    /\ r \in requests /\ r.kind = "follow"
    /\ IF error
       THEN /\ consoleError' = "Error following user:"
            /\ requests' = requests \ {r}
            /\ UNCHANGED dbFollows
       ELSE /\ dbFollows' = dbFollows \cup
                               {[follower_id |-> r.user, following_id |-> r.id]}
            /\ requests' = fetchCoders(requests \ {r})
            /\ consoleError' = None
    /\ Room(requests')
    /\ toast' = None
    /\ UNCHANGED <<page, faults, budgetVars, mounted, user, loading, messagesVars,
                   projectsVars, coders, teams>>

fetchCodersDone(r) == \E error \in Errors : fetchCodersAnswered(r, error)

fetchTeamsDone(r) == \E error \in Errors : fetchTeamsAnswered(r, error)

handleFollowDone(r) == \E error \in Errors : handleFollowAnswered(r, error)

\* The screen after its first render and the run of its mount effect:
\* fetchCoders() and fetchTeams() are in flight
InitBrowse ==
    /\ page = "browse"
    /\ faults = TRUE
    /\ mounted = TRUE
    /\ user = NoUser
    /\ profile = None
    /\ loading = TRUE
    /\ coders = << >>
    /\ teams = << >>
    /\ dbFollows = {}
    /\ budget_min = << >>
    /\ budget_max = << >>
    /\ budget = << >>
    /\ projects = << >>
    /\ myProjects = << >>
    /\ applications = << >>
    /\ dbApplications = << >>
    /\ conversations = << >>
    /\ selectedConversation = NoConversation
    /\ messages = << >>
    /\ newMessage = << >>
    /\ channels = << >>
    /\ events = {}
    /\ requests = fetchTeams(fetchCoders({}))
    /\ dbMessages = {}
    /\ toast = None
    /\ consoleError = None

NextBrowse ==
    \/ \E u \in Users \cup {NoUser} : BrowseAuthChange(u)
    \/ \E c \in SeqToSet(Coders) : FollowClick(c)
    \/ \E r \in requests : fetchCodersDone(r)
    \/ \E r \in requests : fetchTeamsDone(r)
    \/ \E r \in requests : handleFollowDone(r)

SpecBrowse == InitBrowse /\ [][NextBrowse]_vars

----------------------------------------------------------------------------
(* The three screens *)

\* A client on any of the screens: Messages with reading and composing (the
\* rows of the table being those this client sends), Projects or Browse.
InitScreens == Init \/ InitProjects \/ InitBrowse

NextScreens ==
    \/ \E u \in Users \cup {NoUser} : AuthChange(u)
    \/ \E c \in ConversationIds : selectConversation(c)
    \/ \E d \in Drafts : onChange(d)
    \/ sendMessage
    \/ \E r \in requests : ServeSendMessage(r)
    \/ \E r \in requests : sendMessageDone(r)
    \/ \E r \in requests : ServeLoadMessages(r)
    \/ \E r \in requests : loadMessagesDone(r)
    \/ \E r \in requests : fetchMessageDone(r)
    \/ \E r \in requests : fetchConversationsDone(r)
    \/ \E i \in 1..MaxChannels : ChannelJoined(i)
    \/ \E e \in events : OnInsert(e)
    \/ NextProjects
    \/ NextBrowse

SpecScreens == InitScreens /\ [][NextScreens]_vars

----------------------------------------------------------------------------
(* Properties of the three screens *)

\* The continuation of call r runs in this step for an answer with an error
Failed(r) ==
    \/ fetchMessageAnswered(r, TRUE)
    \/ fetchConversationsAnswered(r, TRUE)
    \/ loadMessagesDone(r) /\ r.status = "error"
    \/ sendMessageDone(r) /\ r.status = "error"
    \/ fetchProjectsAnswered(r, TRUE)
    \/ fetchMyProjectsAnswered(r, TRUE)
    \/ fetchMyApplicationsAnswered(r, TRUE)
    \/ handleApplyToProjectDone(r) /\ r.status = "error"
    \/ fetchCodersAnswered(r, TRUE)
    \/ fetchTeamsAnswered(r, TRUE)
    \/ handleFollowAnswered(r, TRUE)

\* The calls whose error branch logs and toasts, only logs, only toasts
LogAndToast == {"fetchConversations", "loadMessages", "sendMessage", "fetchProjects"}

LogOnly == {"fetchMessage", "fetchMyProjects", "fetchMyApplications",
            "fetchCoders", "fetchTeams", "follow"}

ToastOnly == {"apply"}

\* C11 as claimed: every remote call of the three screens, when it fails, both
\* logs to the console and shows a toast.
C11_EveryFailureLogsAndToasts ==
    [][\A r \in requests :
          Failed(r) => (consoleError' # None /\ toast' # None)]_vars

\* C11 as amended: a failed fetchConversations, loadMessages, sendMessage or
\* fetchProjects logs and toasts; a failed fetchMessage, fetchMyProjects,
\* fetchMyApplications, fetchCoders, fetchTeams or handleFollow only logs; a
\* failed handleApplyToProject only toasts.
C11_FailureOutput ==
    [][\A r \in requests :
          Failed(r)
              => /\ r.kind \in LogAndToast \cup LogOnly \cup ToastOnly
                 /\ consoleError' # None <=> r.kind \in LogAndToast \cup LogOnly
                 /\ toast' # None <=> r.kind \in LogAndToast \cup ToastOnly]_vars

C11_Witness ==
    /\ consoleError = "Error loading messages:" /\ toast = "Failed to load messages"
    /\ selectedConversation # NoConversation

\* The calls the data service answers in a step of its own, before the
\* continuation runs
ServedFirst == {"loadMessages", "sendMessage", "apply"}

\* The continuation of call r runs in this step: the call leaves the calls in
\* flight, answered
Completed(r) ==
    /\ r \in requests /\ r \notin requests'
    /\ r.kind \in ServedFirst => r.status # "sent"

\* C12: no call is retried: the continuation of a failed call issues nothing,
\* and no continuation issues the query it belongs to again; the same query
\* goes out again only from a user action or an effect run.
C12_NoRetry ==
    [][\A r \in requests :
          /\ Failed(r) => requests' = requests \ {r}
          /\ Completed(r) => \A q \in requests' \ requests : q.kind # r.kind]_vars

C12_Witness ==
    /\ toast = "Failed to send message" /\ requests = {}
    /\ trim(newMessage) # << >>

\* C14: a read that fails leaves the screen's list as it was before the call
\* answered: messages for loadMessages and fetchMessage, conversations for
\* fetchConversations, projects for fetchProjects.
C14_FailedReadKeepsList ==
    [][\A r \in requests :
          /\ (loadMessagesDone(r) /\ r.status = "error") => messages' = messages
          /\ fetchMessageAnswered(r, TRUE) => messages' = messages
          /\ fetchConversationsAnswered(r, TRUE) => conversations' = conversations
          /\ fetchProjectsAnswered(r, TRUE) => projects' = projects]_vars

C14_Witness ==
    /\ toast = "Failed to load messages" /\ messages # << >>
    /\ conversations # << >>

\* c is d without its leading and trailing spaces
IsTrimmed(c, d) ==
    /\ c = << >> \/ (c[1] # " " /\ c[Len(c)] # " ")
    /\ \E i \in 0..Len(d) :
          /\ i + Len(c) <= Len(d)
          /\ SubSeq(d, i + 1, i + Len(c)) = c
          /\ \A k \in (1..i) \cup ((i + Len(c) + 1)..Len(d)) : d[k] = " "

\* C16: a sendMessage that gets past its guard issues one insert, carrying the
\* selected conversation, the user's id and the draft without its leading and
\* trailing whitespace; the data service, when it succeeds, stores exactly one
\* row with those fields; and no insert is ever in flight for no conversation
\* or no user.
C16_SendInsertsOneRow ==
    [][/\ (sendMessage /\ requests' # requests)
            => \E q \in requests' \ requests :
                  /\ requests' = requests \cup {q}
                  /\ q.kind = "sendMessage"
                  /\ q.conversation_id = selectedConversation /\ q.user = user
                  /\ IsTrimmed(q.content, newMessage) /\ q.content # << >>
       /\ \A r \in requests :
            (ServeSendMessage(r) /\ AnswerTo(r).status = "ok")
                => \E row \in dbMessages' \ dbMessages :
                      /\ dbMessages' = dbMessages \cup {row}
                      /\ row.conversation_id = r.conversation_id
                      /\ row.sender_id = r.user
                      /\ row.content = r.content
       /\ \A q \in requests' :
            q.kind = "sendMessage"
                => (q.conversation_id # NoConversation /\ q.user # NoUser)
       /\ (user = NoUser \/ selectedConversation = NoConversation)
            => ~ \E q \in requests' \ requests :
                    q.kind = "sendMessage" /\ q.status = "sent"]_vars

C16_Witness ==
    /\ newMessage = <<" ", "a", " ">>
    /\ \E row \in dbMessages :
          /\ row.sender_id = user /\ row.content = <<"a">>
          /\ row.conversation_id = "B"

\* The calls issued and the channels opened in this step
Issued == {q \in requests' \ requests : q.status = "sent"}

Opened == ChannelIds(channels') \ ChannelIds(channels)

\* C17 as claimed: while no user is signed in, the Messages and Projects
\* screens issue no query and open no subscription.
C17_NothingWithoutUser ==
    [][(page \in {"messages", "projects"} /\ user' = NoUser)
          => (Issued = {} /\ Opened = {})]_vars

\* C17 as amended: while no user is signed in, no effect run and no user
\* action of the two screens issues a query, and no subscription is opened;
\* the one query that can go out is the fetchProjects of the continuation of
\* an application that was submitted before the sign-out and succeeded.
C17_OnlyRefetchWithoutUser ==
    [][(page \in {"messages", "projects"} /\ user' = NoUser)
          => /\ Opened = {}
             /\ \/ Issued = {}
                \/ /\ \E r \in requests :
                         handleApplyToProjectDone(r) /\ r.status = "ok"
                   /\ \A q \in Issued : q.kind = "fetchProjects"]_vars

C17_Witness ==
    /\ page = "projects" /\ user = NoUser
    /\ toast = "Application submitted successfully"
    /\ \E q \in requests : q.kind = "fetchProjects"


\* C18: project operations are gated by role: an application insert goes out
\* only for a coder, fetchMyProjects only for a hirer, fetchMyApplications only
\* for a coder, and a click on a project card by anyone else issues nothing.
C18_RoleGated ==
    [][/\ \A q \in Issued :
            /\ q.kind = "apply" => (profile = "coder" /\ profile' = "coder")
            /\ q.kind = "fetchMyProjects" => profile' = "hirer"
            /\ q.kind = "fetchMyApplications" => profile' = "coder"
       /\ \A p \in SeqToSet(OpenProjects) :
            (ApplyClick(p) /\ profile # "coder") => requests' = requests]_vars

C18_Witness ==
    /\ page = "projects" /\ profile = "hirer" /\ ~loading
    /\ myProjects # << >> /\ dbApplications # << >>

C22_ClearsOnlyWhatWasSent ==
    [][\A r \in requests :
          sendMessageDone(r)
              => IF r.status = "error"
                 THEN newMessage' = newMessage
                 ELSE /\ newMessage' = << >>
                      /\ trim(newMessage) \in {r.content, << >>}]_vars

\* The signed-in coder has an application row for the project
Applied(projectId) ==
    /\ mounted /\ user # NoUser /\ profile = "coder"
    /\ HasApplication(projectId, user)

\* My Applications holds an application for the project
Listed(projectId) ==
    \E i \in 1..Len(applications) : applications[i].project_id = projectId

\* C23: once an application of the signed-in coder is stored, the applications
\* list comes to hold it while the coder stays signed in on the mounted screen.
C23_ApplicationListed ==
    \A p \in SeqToSet(OpenProjects) : Applied(p) ~> (Listed(p) \/ ~Applied(p))

\* C24: handleFollow issues nothing without a user; with one it issues one
\* insert of (follower = the user, following = the profile); when the insert is
\* stored it calls fetchCoders again, and when the insert fails it calls
\* nothing and leaves the coder list as it was.
C24_FollowThenRefetch ==
    [][/\ \A c \in SeqToSet(Coders) :
            FollowClick(c)
                => \E q \in Issued :
                      /\ requests' = requests \cup {q}
                      /\ q.kind = "follow" /\ q.user = user /\ q.id = c
       /\ \A r \in requests :
            /\ handleFollowAnswered(r, FALSE)
                  => /\ dbFollows' = dbFollows \cup
                                        {[follower_id |-> r.user, following_id |-> r.id]}
                     /\ \E f \in Issued :
                           f.kind = "fetchCoders" /\ requests' = (requests \ {r}) \cup {f}
                     /\ coders' = coders
            /\ handleFollowAnswered(r, TRUE)
                  => /\ dbFollows' = dbFollows
                     /\ requests' = requests \ {r}
                     /\ coders' = coders
       /\ user = NoUser => ~ \E q \in Issued : q.kind = "follow"
       /\ \A q \in requests' : q.kind = "follow" => q.user # NoUser]_vars

C24_Witness ==
    /\ page = "browse" /\ dbFollows # {} /\ coders # << >>
    /\ \E f \in requests : f.kind = "fetchCoders"
    /\ \E r \in requests : r.kind = "follow"

\* C25: formatBudget gives the range when both bounds are given, 'From' when
\* only min is, 'Up to' when only max is, and 'Budget not specified' exactly
\* when both are null, for every pair of bounds, a bound of 0 included.
C25_FormatBudget ==
    LET min == budget_min
        max == budget_max
        text == IF min # << >> /\ max # << >>
                THEN <<"$">> \o ToString(min[1]) \o <<" - $">> \o ToString(max[1])
                ELSE IF min # << >> THEN <<"From $">> \o ToString(min[1])
                ELSE IF max # << >> THEN <<"Up to $">> \o ToString(max[1])
                ELSE <<"Budget not specified">>
    IN  budget # << >> => budget = text

====
